---- MODULE Spec2Model ----
(***************************************************************************)
(* Runtime coordination core of the workflow automation server:            *)
(*   - the webhook synchronization bridge (lib/webhook-store, the webhook   *)
(*     and webhook-test handlers, the webhook-listen endpoint);             *)
(*   - the ReAct reasoning loop (AgentAdapter.executeReActAgent).           *)
(* Time is in milliseconds and advances as in a discrete-event run: the     *)
(* clock never passes the deadline of an armed timer before that timer's    *)
(* callback has run.                                                        *)
(***************************************************************************)
EXTENDS Integers, Sequences, FiniteSets, TLC

\* ------------------------------------------------------------------ bounds
NumRequests == 2     \* calls of waitForWebhookResponse / webhook requests
MaxDeliver == 2      \* calls of setWebhookResponse
NumPollers == 2      \* GET requests on webhook-listen
MaxAdmin == 1        \* POST requests on webhook-listen
NumStores == 1       \* webhook requests in the runs of SpecPoll, SpecSweep and SpecHeaders
MaxTime == 32000     \* the clock stops here
MaxIter == 3         \* largest maxIterations a run is given
NumSubscribers == 2  \* GET requests on the events route
MaxPublish == 2      \* events published
MaxConfigs == 2      \* tool configurations connected to one agent node
SweepHorizon == 420000  \* the clock of the runs of the cleanup stops here

\* ------------------------------------------------------- program constants
WebhookTimeoutMs == 30000
PollIntervalMs == 500
SweepIntervalMs == 60000
MaxAgeMs == 300000
DefaultStatus == 200

\* ------------------------------------------------------------------ inputs
AdvanceStep == 15000  \* how far the clock moves when no timer is due sooner
AwaitTimeouts == {1000}
PollTimeouts == {0, 1000}
RawPaths == {<<"a">>, <<"a", "/">>}
Routes == {"webhook", "webhook-test"}
AdminActions == {"clear", "reset", "other"}

WorkflowIds == {"wf1", "wf2"}
CancelReasons == {"undefined", "object"}
Requests == 1..NumRequests
Handles == 1..NumSubscribers
Pollers == 1..NumPollers

Min(S) == CHOOSE x \in S : \A y \in S : x <= y

\* path.join("/").replace(/\/+$/, ""): drop every trailing slash
RECURSIVE StripTrailingSlashes(_)
StripTrailingSlashes(p) ==
  IF Len(p) > 0 /\ p[Len(p)] = "/"
    THEN StripTrailingSlashes(SubSeq(p, 1, Len(p) - 1))
    ELSE p

\* the key each route derives from the joined request path
PathKey(route, raw) ==
  IF route = "webhook-test" THEN StripTrailingSlashes(raw) ELSE raw

\* the key the webhook-listen endpoint derives
ListenKey(raw) == StripTrailingSlashes(raw)

\* ------------------------------------------------------------------- state
VARIABLES
  now,                   \* Date.now()
  webhookTestStore,      \* Map<string, WebhookEvent>
  webhookResponseStore,  \* Map<string, WebhookResponse>
  responseResolvers,     \* Map<string, ResponseResolver>, by owning call
  req,                   \* the calls of waitForWebhookResponse
  poll,                  \* the GET requests of webhook-listen
  sweepAt,               \* next run of the cleanup interval
  deliverCount,          \* calls of setWebhookResponse so far
  adminCount,            \* POST requests of webhook-listen so far
  undelivered,           \* history: response set while nobody waited, not yet awaited
  agent,                 \* one execution of AgentAdapter.executeReActAgent
  broadcastFunction,     \* lib/broadcast: is a broadcast function registered
  connections,           \* events route: Map<string, Set<controller>>
  sub,                   \* the GET requests of the events route
  pubCount,              \* events published so far
  lastPublish,           \* history: the last call of a broadcast helper
  toolRun                \* one call of a tool's execute and how it settled

bridgeVars == <<now, webhookTestStore, webhookResponseStore, responseResolvers, req,
                poll, sweepAt, deliverCount, adminCount, undelivered>>
hubVars == <<broadcastFunction, connections, sub, pubCount, lastPublish>>
vars == <<bridgeVars, agent, hubVars, toolRun>>

NoResponse == [id |-> 0, statusCode |-> 0]
\* History field of an event: sent (the header names the request carried)
NoEvent == [id |-> 0, timestamp |-> 0, consumed |-> FALSE, epoch |-> 0,
            headers |-> {}, sent |-> {}]
NoHttp == [status |-> 0, kind |-> "none", id |-> 0]

\* a call of waitForWebhookResponse. History fields: pre (the response set for
\* its key while nobody waited, as found by the call), during (responses set for
\* its key while it waited, before its deadline), late (one was set for its key
\* while it waited, after its deadline), overwritten (another call registered
\* under its key while it waited)
IdleReq == [st |-> "idle", kind |-> "none", path |-> <<>>, deadline |-> 0,
            timer |-> "none", result |-> NoResponse, http |-> NoHttp,
            pre |-> 0, during |-> {}, late |-> FALSE, overwritten |-> FALSE]
\* a GET request of webhook-listen. data is the id of the event it returned and
\* epoch counts the resets that event had been through. History field: seen
\* (the id of the unconsumed event under its key when the request arrived)
IdlePoll == [pc |-> "idle", path |-> <<>>, timeout |-> 0, startTime |-> 0,
             wake |-> 0, received |-> FALSE, data |-> 0, epoch |-> 0,
             seen |-> 0]

\* a GET request of the events route: its stream (st), the heartbeat interval
\* (armed or not), and what was written to the stream (0 is the "connected"
\* message, n > 0 the n-th published event). History fields: since (events
\* published before the request arrived), cancelThrew (did cancel throw)
IdleSub == [st |-> "idle", wf |-> "", heartbeat |-> FALSE, received |-> <<>>,
            since |-> 0, cancelThrew |-> FALSE]
NoPublish == [wf |-> "", event |-> 0, targets |-> {}, failed |-> {}, raised |-> FALSE]

\* a call of execute of the database_query tool: its settings, the query it
\* was given and how it settled
NoQuery == [verb |-> "", tables |-> <<>>]
NoToolRun == [tool |-> "none", readOnly |-> FALSE, allowedTables |-> <<>>,
              query |-> NoQuery, outcome |-> "none"]

\* ------------------------------------------------- the agent node's input
\* Strings stand for JavaScript values: "" is a field that is unset, empty or
\* not a string; "  " is a string of white space.
Trim(str) == IF str = "  " THEN "" ELSE str

\* chatModelConfig: the legacy chat-model slot ("" when not connected)
NoChatModel == [type |-> "", apiKey |-> ""]
\* input.trigger: absent, or with a body that is absent, a string or an object
NoTrigger == [present |-> FALSE, body |-> "absent"]
\* a tool configuration: its type and its settings.name
ToolConfig(type, name) == [type |-> type, name |-> name]

\* input.maxIterations is <<>> when the caller gives none, else <<n>>
DefaultInput ==
  [maxIterations |-> <<1>>, provider |-> "openai", model |-> "gpt-4o-mini",
   configKey |-> "sk-config", chatModel |-> NoChatModel,
   envOpenai |-> "", envAnthropic |-> "",
   query |-> "hi", prompt |-> "", message |-> "", input |-> "",
   trigger |-> NoTrigger, previous |-> "absent", toolConfigs |-> <<>>]

\* maxIterations = 10 in the destructuring of input
DefaultMaxIterations == 10
MaxIterationsOf(input) ==
  IF input.maxIterations = <<>> THEN DefaultMaxIterations ELSE input.maxIterations[1]

\* the user input: a string taken as it is (raw), or a sentence built around
\* the JSON text of the trigger's body, the trigger, an upstream body or the
\* upstream outputs
RawText(t) == [kind |-> "raw", text |-> t]
Built(kind) == [kind |-> kind, text |-> "Process this ..."]
Greeting == RawText("Hello! What can you help me with?")

\* variant: prompt is looked at before query
ResolveUserInputPromptFirst(input) ==
  IF input.prompt # "" THEN RawText(input.prompt)
  ELSE IF input.query # "" /\ Trim(input.query) # "" THEN RawText(input.query)
  ELSE IF input.message # "" THEN RawText(input.message)
  ELSE IF input.input # "" THEN RawText(input.input)
  ELSE IF input.trigger.present
    THEN IF input.trigger.body = "object" THEN Built("webhook data")
         ELSE Built("trigger data")
  ELSE IF input.previous # "absent"
    THEN IF input.previous = "withBody" THEN Built("upstream body")
         ELSE Built("upstream data")
  ELSE RawText("")

\* the if / else-if chain that fills userInput
ResolveUserInput(input) ==
  IF input.query # "" /\ Trim(input.query) # "" THEN RawText(input.query)
  ELSE IF input.prompt # "" THEN RawText(input.prompt)
  ELSE IF input.message # "" THEN RawText(input.message)
  ELSE IF input.input # "" THEN RawText(input.input)
  ELSE IF input.trigger.present
    THEN IF input.trigger.body = "object" THEN Built("webhook data")
         ELSE Built("trigger data")
  ELSE IF input.previous # "absent"
    THEN IF input.previous = "withBody" THEN Built("upstream body")
         ELSE Built("upstream data")
  ELSE RawText("")

\* if (!userInput || userInput === "undefined" || userInput === "{}")
DefaultPrompt(u) ==
  IF u.kind = "raw" /\ u.text \in {"", "undefined", "{}"} THEN Greeting ELSE u

\* variant: a run without a key goes on with a built-in one
ApiKeyOfBuiltIn(input) ==
  LET configApiKey == IF input.configKey # "" /\ Trim(input.configKey) # ""
                        THEN input.configKey ELSE ""
      legacyApiKey == input.chatModel.apiKey
      envApiKey == IF input.provider = "anthropic" THEN input.envAnthropic
                   ELSE input.envOpenai IN
  IF configApiKey # "" THEN configApiKey
  ELSE IF legacyApiKey # "" THEN legacyApiKey
  ELSE IF envApiKey # "" THEN envApiKey
  ELSE "sk-builtin"

\* configApiKey || legacyApiKey || envApiKey ("" when there is none)
ApiKeyOf(input) ==
  LET configApiKey == IF input.configKey # "" /\ Trim(input.configKey) # ""
                        THEN input.configKey ELSE ""
      legacyApiKey == input.chatModel.apiKey
      envApiKey == IF input.provider = "anthropic" THEN input.envAnthropic
                   ELSE input.envOpenai IN
  IF configApiKey # "" THEN configApiKey
  ELSE IF legacyApiKey # "" THEN legacyApiKey
  ELSE envApiKey

IsAnthropic(input) == input.provider = "anthropic" \/ input.model = "claude-3-5-sonnet"

\* the chat-model slot, if connected, followed by the tool slots
AllToolConfigs(input) ==
  (IF input.chatModel # NoChatModel
     THEN <<ToolConfig(input.chatModel.type, "")>> ELSE <<>>) \o input.toolConfigs

\* the cases of the switch of createBuiltinTools and the name each one pushes
BuiltinToolName ==
  [httpRequestTool |-> "http_request", postgresTool |-> "database_query",
   googleSheetsTool |-> "google_sheets", slackTool |-> "slack_message",
   gmailTool |-> "send_email", openaiTool |-> "openai_generate",
   openAiChatModel |-> "openai_generate", anthropicTool |-> "anthropic_generate",
   anthropicChatModel |-> "anthropic_generate"]

\* variant: a custom tool is pushed whether or not it has a name
CreateBuiltinToolsUnnamed(toolConfigs) ==
  LET Pushed(config) ==
        IF config.type \in DOMAIN BuiltinToolName
          THEN <<BuiltinToolName[config.type]>>
        ELSE IF config.type = "customTool" THEN <<config.name>>
        ELSE <<>>
      RECURSIVE Loop(_, _)
      Loop(i, tools) ==
        IF i > Len(toolConfigs) THEN tools
        ELSE Loop(i + 1, tools \o Pushed(toolConfigs[i])) IN
  Loop(1, <<>>)

\* createBuiltinTools(toolConfigs): the names of the tools it returns
CreateBuiltinTools(toolConfigs) ==
  LET Pushed(config) ==
        IF config.type \in DOMAIN BuiltinToolName
          THEN <<BuiltinToolName[config.type]>>
        ELSE IF config.type = "customTool" /\ config.name # "" THEN <<config.name>>
        ELSE <<>>
      RECURSIVE Loop(_, _)
      Loop(i, tools) ==
        IF i > Len(toolConfigs) THEN tools
        ELSE Loop(i + 1, tools \o Pushed(toolConfigs[i])) IN
  Loop(1, <<>>)

Init ==
  /\ broadcastFunction = FALSE
  /\ connections = [w \in {} |-> {}]
  /\ sub = [h \in Handles |-> IdleSub]
  /\ pubCount = 0
  /\ lastPublish = NoPublish
  /\ now = 0
  /\ webhookTestStore = [k \in RawPaths |-> NoEvent]
  /\ webhookResponseStore = [k \in RawPaths |-> NoResponse]
  /\ responseResolvers = [k \in RawPaths |-> 0]
  /\ req = [w \in Requests |-> IdleReq]
  /\ poll = [p \in Pollers |-> IdlePoll]
  /\ sweepAt = SweepIntervalMs
  /\ deliverCount = 0
  /\ adminCount = 0
  /\ undelivered = [k \in RawPaths |-> NoResponse]
  /\ toolRun = NoToolRun
  /\ agent = [pc |-> "idle", maxIterations |-> 0, isAnthropic |-> FALSE,
              messages |-> <<>>, toolCalls |-> <<>>, step |-> "reason",
              iterations |-> 0,
              output |-> [kind |-> "none", text |-> "", n |-> 0, tools |-> <<>>],
              error |-> "", calls |-> <<>>, events |-> <<>>, llmCalls |-> 0,
              thrown |-> "", failedAt |-> 0, toolFailures |-> 0,
              input |-> DefaultInput, userInput |-> RawText(""), tools |-> <<>>,
              result |-> [answer |-> [kind |-> "none", text |-> "", n |-> 0,
                                      tools |-> <<>>],
                          status |-> "none", iterations |-> 0]]

\* --------------------------------------------------------- webhook handlers
\* what handleWebhook sends once waitForWebhookResponse has settled
HttpResponseOf(response) ==
  IF response # NoResponse
    THEN [status |-> IF response.statusCode # 0 THEN response.statusCode
                     ELSE DefaultStatus,
          kind |-> "delivered", id |-> response.id]
    ELSE [status |-> DefaultStatus, kind |-> "ack", id |-> 0]

\* the promise of call w settles with result: the caller resumes
Settle(r, result, timerState) ==
  [r EXCEPT !.st = "returned", !.result = result, !.timer = timerState,
            !.http = IF r.kind = "call" THEN NoHttp ELSE HttpResponseOf(result)]

\* variant: the stored response is returned but left in the store
WaitForKeepsStored(w, kind, path, timeoutMs) ==
  LET existing == webhookResponseStore[path]
      r0 == [IdleReq EXCEPT !.kind = kind, !.path = path,
                            !.pre = undelivered[path].id] IN
  IF existing # NoResponse
    THEN /\ req' = [req EXCEPT ![w] = Settle(r0, existing, "none")]
         /\ UNCHANGED <<responseResolvers, webhookResponseStore>>
    ELSE /\ responseResolvers' = [responseResolvers EXCEPT ![path] = w]
         /\ req' = [req EXCEPT ![w] = [r0 EXCEPT !.st = "pending",
                                               !.deadline = now + timeoutMs,
                                               !.timer = "armed"]]
         /\ UNCHANGED webhookResponseStore

\* waitForWebhookResponse(path, timeoutMs), called by w
WaitFor(w, kind, path, timeoutMs) ==
  LET existing == webhookResponseStore[path]
      r0 == [IdleReq EXCEPT !.kind = kind, !.path = path,
                            !.pre = undelivered[path].id]
      prev == responseResolvers[path] IN
  IF existing # NoResponse
    THEN /\ webhookResponseStore' = [webhookResponseStore EXCEPT ![path] = NoResponse]
         /\ req' = [req EXCEPT ![w] = Settle(r0, existing, "none")]
         /\ UNCHANGED responseResolvers
    ELSE /\ responseResolvers' = [responseResolvers EXCEPT ![path] = w]
         /\ req' = [v \in Requests |->
                      IF v = w THEN [r0 EXCEPT !.st = "pending",
                                               !.deadline = now + timeoutMs,
                                               !.timer = "armed"]
                      ELSE IF v = prev THEN [req[v] EXCEPT !.overwritten = TRUE]
                      ELSE req[v]]
         /\ UNCHANGED webhookResponseStore

CanStart(w) ==
  /\ req[w].st = "idle"
  /\ \A v \in Requests : v < w => req[v].st # "idle"

\* a direct call of waitForWebhookResponse
AwaitCall(w, path, timeoutMs) ==
  /\ CanStart(w)
  /\ now + timeoutMs <= MaxTime
  /\ WaitFor(w, "call", path, timeoutMs)
  /\ undelivered' = [undelivered EXCEPT ![path] = NoResponse]
  /\ UNCHANGED <<hubVars, agent, toolRun, now, webhookTestStore, poll, sweepAt, deliverCount, adminCount>>

\* the names a webhook request may send, as written by the sender
HeaderNames == {"Cookie", "AUTHORIZATION", "authorization", "X-Api-Key",
                "content-type", "__proto__"}
\* the headers of the requests that are not about headers
PlainHeaders == {"content-type"}
\* String.prototype.toLowerCase on those names
ToLowerCase(name) ==
  CASE name = "Cookie" -> "cookie"
    [] name = "AUTHORIZATION" -> "authorization"
    [] name = "X-Api-Key" -> "x-api-key"
    [] OTHER -> name
\* request.headers: the Headers object holds each name once, in lower case
RequestHeaders(sent) == {ToLowerCase(name) : name \in sent}
sensitiveHeaders == {"cookie", "authorization"}
\* headers[key] = value on a plain object: the key __proto__ reaches the
\* setter of Object.prototype, which ignores a string, so no property is made
AssignAll(keys) == keys \ {"__proto__"}
\* the headers object built by request.headers.forEach
ExtractHeaders(sent) ==
  AssignAll({key \in RequestHeaders(sent) : ToLowerCase(key) \notin sensitiveHeaders})

\* handleWebhook of /api/webhook (route "webhook") and /api/webhook-test
HandleWebhook(w, route, raw, sent) ==
  LET pathStr == PathKey(route, raw) IN
  /\ CanStart(w)
  /\ now + WebhookTimeoutMs <= MaxTime
  /\ webhookTestStore' = [webhookTestStore EXCEPT ![pathStr] =
        [id |-> w, timestamp |-> now, consumed |-> FALSE, epoch |-> 0,
         headers |-> ExtractHeaders(sent), sent |-> sent]]
  /\ WaitFor(w, route, pathStr, WebhookTimeoutMs)
  /\ undelivered' = [undelivered EXCEPT ![pathStr] = NoResponse]
  /\ UNCHANGED <<hubVars, agent, toolRun, now, poll, sweepAt, deliverCount, adminCount>>

\* variant: the callback runs without waiting for the deadline
AwaitTimeoutEarly(w) ==
  /\ req[w].timer = "armed"
  /\ responseResolvers' = [responseResolvers EXCEPT ![req[w].path] = 0]
  /\ req' = [req EXCEPT ![w] = Settle(req[w], NoResponse, "fired")]
  /\ UNCHANGED <<hubVars, agent, toolRun, now, webhookTestStore, webhookResponseStore, poll, sweepAt,
                 deliverCount, adminCount, undelivered>>

\* variant: the callback deletes the resolvers of all keys
AwaitTimeoutClearsAll(w) ==
  /\ req[w].timer = "armed"
  /\ now >= req[w].deadline
  /\ responseResolvers' = [k \in RawPaths |-> 0]
  /\ req' = [req EXCEPT ![w] = Settle(req[w], NoResponse, "fired")]
  /\ UNCHANGED <<hubVars, agent, toolRun, now, webhookTestStore, webhookResponseStore, poll, sweepAt,
                 deliverCount, adminCount, undelivered>>

\* the setTimeout callback of call w
AwaitTimeout(w) ==
  /\ req[w].timer = "armed"
  /\ now >= req[w].deadline
  /\ responseResolvers' = [responseResolvers EXCEPT ![req[w].path] = 0]
  /\ req' = [req EXCEPT ![w] = Settle(req[w], NoResponse, "fired")]
  /\ UNCHANGED <<hubVars, agent, toolRun, now, webhookTestStore, webhookResponseStore, poll, sweepAt,
                 deliverCount, adminCount, undelivered>>

\* the status code of the n-th response handed over: unset (0) or 201
StatusCodeOf(n) == IF n % 2 = 1 THEN 0 ELSE 201

\* variant: the waiting call is resolved but its resolver stays in the map
SetWebhookResponseKeepsResolver(path) ==
  LET response == [id |-> deliverCount + 1, statusCode |-> StatusCodeOf(deliverCount + 1)]
      resolver == responseResolvers[path] IN
  /\ deliverCount < MaxDeliver
  /\ deliverCount' = deliverCount + 1
  /\ webhookResponseStore' = [webhookResponseStore EXCEPT ![path] = response]
  /\ IF resolver # 0
       THEN /\ req' = [req EXCEPT ![resolver] = Settle(req[resolver], response, "cleared")]
            /\ UNCHANGED undelivered
       ELSE /\ undelivered' = [undelivered EXCEPT ![path] = response]
            /\ UNCHANGED req
  /\ UNCHANGED <<hubVars, agent, toolRun, now, webhookTestStore, poll, sweepAt, adminCount,
                 responseResolvers>>

\* setWebhookResponse(path, response)
SetWebhookResponse(path) ==
  LET response == [id |-> deliverCount + 1, statusCode |-> StatusCodeOf(deliverCount + 1)]
      resolver == responseResolvers[path]
      seen == [w \in Requests |->
                 IF req[w].st = "pending" /\ req[w].path = path
                   THEN IF now < req[w].deadline
                          THEN [req[w] EXCEPT !.during = @ \cup {response.id}]
                          ELSE [req[w] EXCEPT !.late = TRUE]
                   ELSE req[w]] IN
  /\ deliverCount < MaxDeliver
  /\ deliverCount' = deliverCount + 1
  /\ webhookResponseStore' = [webhookResponseStore EXCEPT ![path] = response]
  /\ IF resolver # 0
       THEN /\ req' = [seen EXCEPT ![resolver] = Settle(seen[resolver], response, "cleared")]
            /\ responseResolvers' = [responseResolvers EXCEPT ![path] = 0]
            /\ UNCHANGED undelivered
       ELSE /\ req' = seen
            /\ undelivered' = [undelivered EXCEPT ![path] = response]
            /\ UNCHANGED responseResolvers
  /\ UNCHANGED <<hubVars, agent, toolRun, now, webhookTestStore, poll, sweepAt, adminCount>>

\* ------------------------------------------------------ webhook-listen
PollCanStart(p) ==
  /\ poll[p].pc = "idle"
  /\ \A q \in Pollers : q < p => poll[q].pc # "idle"

\* variant: the event is returned without being marked consumed
PollLoopNoConsume(p, ps) ==
  LET event == webhookTestStore[ps.path] IN
  IF now - ps.startTime < ps.timeout
    THEN IF event # NoEvent /\ ~event.consumed
           THEN /\ poll' = [poll EXCEPT ![p] = [ps EXCEPT !.pc = "done",
                               !.received = TRUE, !.data = event.id,
                               !.epoch = event.epoch]]
                /\ UNCHANGED webhookTestStore
           ELSE /\ poll' = [poll EXCEPT ![p] = [ps EXCEPT !.pc = "sleep",
                               !.wake = now + PollIntervalMs]]
                /\ UNCHANGED webhookTestStore
    ELSE /\ poll' = [poll EXCEPT ![p] = [ps EXCEPT !.pc = "done", !.received = FALSE]]
         /\ UNCHANGED webhookTestStore

\* one pass of the while loop of GET, for the request in state ps
PollLoop(p, ps) ==
  LET event == webhookTestStore[ps.path] IN
  IF now - ps.startTime < ps.timeout
    THEN IF event # NoEvent /\ ~event.consumed
           THEN /\ webhookTestStore' = [webhookTestStore EXCEPT ![ps.path].consumed = TRUE]
                /\ poll' = [poll EXCEPT ![p] = [ps EXCEPT !.pc = "done",
                               !.received = TRUE, !.data = event.id,
                               !.epoch = event.epoch]]
           ELSE /\ poll' = [poll EXCEPT ![p] = [ps EXCEPT !.pc = "sleep",
                               !.wake = now + PollIntervalMs]]
                /\ UNCHANGED webhookTestStore
    ELSE /\ poll' = [poll EXCEPT ![p] = [ps EXCEPT !.pc = "done", !.received = FALSE]]
         /\ UNCHANGED webhookTestStore

\* GET /api/webhook-listen/{path}?timeout=ms, up to its first sleep
PollStart(p, raw, timeout) ==
  /\ PollCanStart(p)
  /\ now + timeout + PollIntervalMs <= MaxTime
  /\ PollLoop(p, [IdlePoll EXCEPT !.path = ListenKey(raw), !.timeout = timeout,
                                  !.startTime = now,
                                  !.seen = IF webhookTestStore[ListenKey(raw)].consumed
                                             THEN 0
                                             ELSE webhookTestStore[ListenKey(raw)].id])
  /\ UNCHANGED <<hubVars, agent, toolRun, now, webhookResponseStore, responseResolvers, req, sweepAt,
                 deliverCount, adminCount, undelivered>>

\* the 500 ms sleep of GET ends: the next pass of its loop
PollWake(p) ==
  /\ poll[p].pc = "sleep"
  /\ now >= poll[p].wake
  /\ PollLoop(p, poll[p])
  /\ UNCHANGED <<hubVars, agent, toolRun, now, webhookResponseStore, responseResolvers, req, sweepAt,
                 deliverCount, adminCount, undelivered>>

\* variant: reset leaves the consumed flag as it is
ListenPostResetKeeps(raw, action) ==
  LET pathStr == ListenKey(raw) IN
  /\ adminCount < MaxAdmin
  /\ adminCount' = adminCount + 1
  /\ webhookTestStore' =
       IF action = "clear" THEN [webhookTestStore EXCEPT ![pathStr] = NoEvent]
       ELSE webhookTestStore
  /\ UNCHANGED <<hubVars, agent, toolRun, now, webhookResponseStore, responseResolvers, req, poll, sweepAt,
                 deliverCount, undelivered>>

\* POST /api/webhook-listen/{path} with body {action}
ListenPost(raw, action) ==
  LET pathStr == ListenKey(raw)
      event == webhookTestStore[pathStr] IN
  /\ adminCount < MaxAdmin
  /\ adminCount' = adminCount + 1
  /\ webhookTestStore' =
       IF action = "clear" THEN [webhookTestStore EXCEPT ![pathStr] = NoEvent]
       ELSE IF action = "reset" /\ event # NoEvent
         THEN [webhookTestStore EXCEPT ![pathStr] =
                 [event EXCEPT !.consumed = FALSE,
                               !.epoch = IF event.consumed THEN @ + 1 ELSE @]]
       ELSE webhookTestStore
  /\ UNCHANGED <<hubVars, agent, toolRun, now, webhookResponseStore, responseResolvers, req, poll, sweepAt,
                 deliverCount, undelivered>>

\* ------------------------------------------------------------ cleanup
Expired(k) ==
  webhookTestStore[k] # NoEvent /\ now - webhookTestStore[k].timestamp > MaxAgeMs

\* the setInterval callback of webhook-store
Sweep ==
  /\ now >= sweepAt
  /\ sweepAt' = sweepAt + SweepIntervalMs
  /\ webhookTestStore' = [k \in RawPaths |->
        IF Expired(k) THEN NoEvent ELSE webhookTestStore[k]]
  /\ webhookResponseStore' = [k \in RawPaths |->
        IF Expired(k) THEN NoResponse ELSE webhookResponseStore[k]]
  /\ undelivered' = [k \in RawPaths |->
        IF Expired(k) THEN NoResponse ELSE undelivered[k]]
  /\ UNCHANGED <<hubVars, agent, toolRun, now, responseResolvers, req, poll, deliverCount, adminCount>>

\* ------------------------------------------------------------ time
Deadlines ==
  {req[w].deadline : w \in {v \in Requests : req[v].timer = "armed"}}
  \cup {poll[p].wake : p \in {q \in Pollers : poll[q].pc = "sleep"}}
  \cup {sweepAt}

Advance ==
  /\ \A d \in Deadlines : d > now
  /\ now' = Min(Deadlines \cup {now + AdvanceStep})
  /\ now' <= MaxTime
  /\ UNCHANGED <<hubVars, agent, toolRun, webhookTestStore, webhookResponseStore, responseResolvers, req,
                 poll, sweepAt, deliverCount, adminCount, undelivered>>

\* ------------------------------------------------------------ event hub
\* the module of the events route is evaluated: setBroadcastFunction(callback)
LoadEventsRoute ==
  /\ ~broadcastFunction
  /\ broadcastFunction' = TRUE
  /\ UNCHANGED <<bridgeVars, agent, toolRun, connections, sub, pubCount, lastPublish>>

SubCanStart(h) ==
  /\ sub[h].st = "idle"
  /\ \A g \in Handles : g < h => sub[g].st # "idle"

\* GET /api/workflows/{workflowId}/events: start(controller)
Subscribe(h, wf) ==
  /\ broadcastFunction
  /\ SubCanStart(h)
  /\ connections' = [w \in DOMAIN connections \cup {wf} |->
        IF w = wf
          THEN (IF wf \in DOMAIN connections THEN connections[wf] ELSE {}) \cup {h}
          ELSE connections[w]]
  /\ sub' = [sub EXCEPT ![h] = [IdleSub EXCEPT !.st = "open", !.wf = wf,
                                               !.heartbeat = TRUE,
                                               !.received = <<0>>,
                                               !.since = pubCount]]
  /\ UNCHANGED <<bridgeVars, agent, toolRun, broadcastFunction, pubCount, lastPublish>>

\* controller.enqueue throws unless the stream is readable
Writable(h) == sub[h].st = "open"

\* cancel(controller) of the stream of h. The runtime passes the cancellation
\* reason as the argument, so the parameter named controller is the reason:
\* with reason undefined the property read throws, with an object reason the
\* interval is not found on it and Set.delete removes nothing. Either way the
\* set still holds the controller of h and the entry stays.
Cancel(h, reason) ==
  /\ sub[h].st = "open"
  /\ sub' = [sub EXCEPT ![h].st = "cancelled",
                         ![h].cancelThrew = (reason = "undefined")]
  /\ UNCHANGED <<bridgeVars, agent, toolRun, broadcastFunction, connections, pubCount, lastPublish>>

\* the setInterval callback of the stream of h: a comment line is written to
\* the stream, or the write throws and the interval is cleared
Heartbeat(h) ==
  /\ sub[h].heartbeat
  /\ sub' = IF Writable(h) THEN sub ELSE [sub EXCEPT ![h].heartbeat = FALSE]
  /\ UNCHANGED <<bridgeVars, agent, toolRun, broadcastFunction, connections, pubCount, lastPublish>>

\* variant: one failing write ends the loop for everybody
BroadcastStopsAtFailure(wf, event) ==
  LET workflowConnections == IF wf \in DOMAIN connections THEN connections[wf] ELSE {}
      failed == {h \in workflowConnections : ~Writable(h)} IN
  /\ connections' = IF wf \in DOMAIN connections
                      THEN [connections EXCEPT ![wf] = @ \ failed]
                      ELSE connections
  /\ sub' = [h \in Handles |->
               IF h \in workflowConnections /\ failed = {}
                 THEN [sub[h] EXCEPT !.received = Append(@, event)]
                 ELSE sub[h]]
  /\ lastPublish' = [wf |-> wf, event |-> event, targets |-> workflowConnections,
                     failed |-> failed, raised |-> FALSE]

\* variant: the event is written to the streams of every workflow id
BroadcastToAll(wf, event) ==
  LET workflowConnections == IF wf \in DOMAIN connections THEN connections[wf] ELSE {}
      failed == {h \in workflowConnections : ~Writable(h)} IN
  /\ connections' = IF wf \in DOMAIN connections
                      THEN [connections EXCEPT ![wf] = @ \ failed]
                      ELSE connections
  /\ sub' = [h \in Handles |->
               IF Writable(h)
                 THEN [sub[h] EXCEPT !.received = Append(@, event)]
                 ELSE sub[h]]
  /\ lastPublish' = [wf |-> wf, event |-> event, targets |-> workflowConnections,
                     failed |-> failed, raised |-> FALSE]

\* the callback the events route registers: (workflowId, event) => {...}
Broadcast(wf, event) ==
  LET workflowConnections == IF wf \in DOMAIN connections THEN connections[wf] ELSE {}
      failed == {h \in workflowConnections : ~Writable(h)} IN
  /\ connections' = IF wf \in DOMAIN connections
                      THEN [connections EXCEPT ![wf] = @ \ failed]
                      ELSE connections
  /\ sub' = [h \in Handles |->
               IF h \in workflowConnections /\ Writable(h)
                 THEN [sub[h] EXCEPT !.received = Append(@, event)]
                 ELSE sub[h]]
  /\ lastPublish' = [wf |-> wf, event |-> event, targets |-> workflowConnections,
                     failed |-> failed, raised |-> FALSE]

\* variant: an event nobody listens to leaves an entry for its workflow
PublishKeepsEntry(wf) ==
  /\ pubCount < MaxPublish
  /\ pubCount' = pubCount + 1
  /\ IF broadcastFunction /\ wf \in DOMAIN connections /\ connections[wf] # {}
       THEN Broadcast(wf, pubCount + 1)
       ELSE /\ connections' = [w \in DOMAIN connections \cup {wf} |->
                                 IF w \in DOMAIN connections THEN connections[w] ELSE {}]
            /\ lastPublish' = [NoPublish EXCEPT !.wf = wf, !.event = pubCount + 1]
            /\ UNCHANGED sub
  /\ UNCHANGED <<bridgeVars, agent, toolRun, broadcastFunction>>

\* a broadcast helper of lib/broadcast is called with workflow id wf
Publish(wf) ==
  /\ pubCount < MaxPublish
  /\ pubCount' = pubCount + 1
  /\ IF broadcastFunction
       THEN Broadcast(wf, pubCount + 1)
       ELSE /\ lastPublish' = [NoPublish EXCEPT !.wf = wf, !.event = pubCount + 1]
            /\ UNCHANGED <<connections, sub>>
  /\ UNCHANGED <<bridgeVars, agent, toolRun, broadcastFunction>>

NextHub ==
  \/ LoadEventsRoute
  \/ \E h \in Handles, wf \in WorkflowIds : Subscribe(h, wf)
  \/ \E h \in Handles, r \in CancelReasons : Cancel(h, r)
  \/ \E h \in Handles : Heartbeat(h)
  \/ \E wf \in WorkflowIds : Publish(wf)

\* the event hub
SpecHub == Init /\ [][NextHub]_vars

\* ------------------------------------------------------ reasoning loop
\* Strings stand for JavaScript strings; "" is the falsy one (unset or empty).
\* History fields of agent: llmCalls (calls of the decision model so far),
\* failedAt (the iteration on which a call of the decision model threw, else
\* 0), toolFailures (tool invocations whose handling failed so far).
NoAnswer == [kind |-> "none", text |-> "", n |-> 0, tools |-> <<>>]
TextAnswer(t) == [kind |-> "text", text |-> t, n |-> 0, tools |-> <<>>]

Message(role, content, id, calls) ==
  [role |-> role, content |-> content, tool_call_id |-> id, tool_calls |-> calls]
Event(type, iteration, tool) == [type |-> type, iteration |-> iteration, tool |-> tool]

\* what the decision model may answer with
ToolName == {"http_request", "database_query"}
Call(id, name, argsOk) == [id |-> id, name |-> name, argsOk |-> argsOk]
ToolCallResponses ==
  { <<Call(1, "http_request", TRUE)>>,
    <<Call(2, "database_query", FALSE)>>,
    <<Call(1, "database_query", TRUE), Call(2, "http_request", TRUE)>>,
    <<Call(2, "http_request", TRUE), Call(3, "http_request", FALSE)>> }
TextResponses == {"final answer", ""}
ErrorMessages == {"model call failed", ""}
\* the tools whose executor may return a string (http_request: response.text()
\* or response.json(); slack_message: response.json())
TextTools == {"http_request", "slack_message"}
\* toolExecutors[name] is defined: a tool of that name was built for the run
HasExecutor(a, name) == \E i \in 1..Len(a.tools) : a.tools[i] = name
\* how a tool execution settles: an object, an object with an error key, a
\* non-empty string, or a throw
ToolOutcomes == {"object", "errorObject", "text", "throw"}

Last3(q) == IF Len(q) <= 3 THEN q ELSE SubSeq(q, Len(q) - 2, Len(q))

\* "Agent reached maximum iterations (n). Last tool calls: ..."
Fallback(a) ==
  [kind |-> "fallback", text |-> "", n |-> a.maxIterations,
   tools |-> Last3([i \in 1..Len(a.toolCalls) |-> a.toolCalls[i].tool])]

\* state.output || state.error || "No response generated"
AnswerOf(a) ==
  IF a.output # NoAnswer THEN a.output
  ELSE IF a.error # "" THEN [kind |-> "error", text |-> a.error, n |-> 0, tools |-> <<>>]
  ELSE TextAnswer("No response generated")

StatusOf(a) ==
  IF a.error # "" THEN "error"
  ELSE IF a.iterations >= a.maxIterations THEN "max_iterations"
  ELSE "completed"

\* 'error' in (tc.output || {}) throws a TypeError when tc.output is a
\* non-empty string
SummaryThrows(a) ==
  \E i \in 1..Len(a.toolCalls) : a.toolCalls[i].output = "text"

\* after the while loop: fallback answer, summary, agent_complete, return
Finish(a) ==
  LET b == IF a.output = NoAnswer /\ a.error = ""
             THEN [a EXCEPT !.output = Fallback(a)] ELSE a IN
  IF SummaryThrows(b)
    THEN [b EXCEPT !.pc = "thrown", !.thrown = "TypeError"]
    ELSE [b EXCEPT !.pc = "returned",
                   !.events = Append(@, Event("agent_complete", b.iterations, "")),
                   !.result = [answer |-> AnswerOf(b), status |-> StatusOf(b),
                               iterations |-> b.iterations]]

\* the head of the while loop, up to the call of the decision model
LoopTop(a) ==
  IF a.iterations < a.maxIterations /\ a.step # "complete"
    THEN [a EXCEPT !.iterations = @ + 1, !.pc = "llm", !.llmCalls = @ + 1,
                   !.events = Append(@, Event("agent_thinking", a.iterations + 1, ""))]
    ELSE Finish(a)

\* the catch block of the loop body
Catch(a, message) ==
  LoopTop([a EXCEPT !.error = message, !.step = "complete", !.calls = <<>>,
                    !.events = Append(@, Event("agent_error", a.iterations, ""))])

\* the for loop over message.tool_calls, up to the call of the next executor
NextToolCall(a) ==
  IF a.calls = <<>> THEN LoopTop(a)
  ELSE IF ~Head(a.calls).argsOk
    THEN Catch([a EXCEPT !.toolFailures = @ + 1], "Unexpected token in JSON")
  ELSE [a EXCEPT !.pc = "tool",
                 !.events = Append(@, Event("agent_tool_start", a.iterations,
                                            Head(a.calls).name))]

\* executeReActAgent is called
AgentStart(input) ==
  LET userInput == DefaultPrompt(ResolveUserInput(input)) IN
  /\ agent.pc = "idle"
  /\ agent' =
       IF ApiKeyOf(input) = ""
         THEN [agent EXCEPT !.pc = "thrown", !.thrown = "VALIDATION_ERROR",
                            !.input = input,
                            !.maxIterations = MaxIterationsOf(input)]
         ELSE LoopTop([agent EXCEPT
                !.input = input,
                !.userInput = userInput,
                !.maxIterations = MaxIterationsOf(input),
                !.isAnthropic = IsAnthropic(input),
                !.events = <<Event("agent_start", 0, "")>>,
                !.messages = <<Message("system", "systemPrompt", 0, <<>>),
                               Message("user", userInput.text, 0, <<>>)>>,
                !.tools = CreateBuiltinTools(AllToolConfigs(input))])
  /\ UNCHANGED <<bridgeVars, hubVars, toolRun>>

\* the decision model answers with text (possibly empty) and no tool calls
LlmText(text) ==
  /\ agent.pc = "llm"
  /\ agent' = LoopTop(IF text # ""
                        THEN [agent EXCEPT !.output = TextAnswer(text),
                                           !.step = "complete"]
                        ELSE agent)
  /\ UNCHANGED <<bridgeVars, hubVars, toolRun>>

\* the decision model answers with tool calls
LlmToolCalls(calls) ==
  /\ agent.pc = "llm"
  /\ ~agent.isAnthropic
  /\ agent' = NextToolCall([agent EXCEPT
        !.calls = calls,
        !.messages = Append(@, Message("assistant", "", 0,
                                       [i \in 1..Len(calls) |-> calls[i].id]))])
  /\ UNCHANGED <<bridgeVars, hubVars, toolRun>>

\* the call of the decision model throws
LlmThrows(message) ==
  /\ agent.pc = "llm"
  /\ agent' = Catch([agent EXCEPT !.failedAt = agent.iterations], message)
  /\ UNCHANGED <<bridgeVars, hubVars, toolRun>>

\* variant: every result is tagged with the id of the response's first call
ToolSettlesFirstId(outcome) ==
  LET call == Head(agent.calls)
      turn == CHOOSE i \in 1..Len(agent.messages) :
                /\ agent.messages[i].role = "assistant"
                /\ \A j \in (i + 1)..Len(agent.messages) :
                     agent.messages[j].role # "assistant"
      content == IF outcome = "throw" THEN "error" ELSE outcome
      a == [agent EXCEPT
              !.calls = Tail(@),
              !.toolFailures = IF outcome = "throw" THEN @ + 1 ELSE @,
              !.toolCalls = IF outcome = "throw" THEN @
                            ELSE Append(@, [tool |-> call.name, output |-> outcome]),
              !.events = Append(@, Event("agent_tool_end", agent.iterations, call.name)),
              !.messages = Append(@, Message("tool", content,
                                             agent.messages[turn].tool_calls[1], <<>>))] IN
  /\ agent.pc = "tool"
  /\ outcome = "text" => call.name \in TextTools
  /\ ~HasExecutor(agent, call.name) => outcome = "throw"
  /\ agent' = NextToolCall(a)
  /\ UNCHANGED <<bridgeVars, hubVars, toolRun>>

\* variant: the calls of a response are executed last to first
ToolSettlesLastFirst(outcome) ==
  LET call == agent.calls[Len(agent.calls)]
      content == IF outcome = "throw" THEN "error" ELSE outcome
      a == [agent EXCEPT
              !.calls = SubSeq(@, 1, Len(@) - 1),
              !.toolFailures = IF outcome = "throw" THEN @ + 1 ELSE @,
              !.toolCalls = IF outcome = "throw" THEN @
                            ELSE Append(@, [tool |-> call.name, output |-> outcome]),
              !.events = Append(@, Event("agent_tool_end", agent.iterations, call.name)),
              !.messages = Append(@, Message("tool", content, call.id, <<>>))] IN
  /\ agent.pc = "tool"
  /\ outcome = "text" => call.name \in TextTools
  /\ ~HasExecutor(agent, call.name) => outcome = "throw"
  /\ agent' = NextToolCall(a)
  /\ UNCHANGED <<bridgeVars, hubVars, toolRun>>

\* the executor of the current tool call settles; calling a name that has no
\* executor throws at once
ToolSettles(outcome) ==
  LET call == Head(agent.calls)
      content == IF outcome = "throw" THEN "error" ELSE outcome
      a == [agent EXCEPT
              !.calls = Tail(@),
              !.toolFailures = IF outcome = "throw" THEN @ + 1 ELSE @,
              !.toolCalls = IF outcome = "throw" THEN @
                            ELSE Append(@, [tool |-> call.name, output |-> outcome]),
              !.events = Append(@, Event("agent_tool_end", agent.iterations, call.name)),
              !.messages = Append(@, Message("tool", content, call.id, <<>>))] IN
  /\ agent.pc = "tool"
  /\ outcome = "text" => call.name \in TextTools
  /\ ~HasExecutor(agent, call.name) => outcome = "throw"
  /\ agent' = NextToolCall(a)
  /\ UNCHANGED <<bridgeVars, hubVars, toolRun>>

\* ---------------------------------------------------- inputs of the set-up
FieldTexts == {"", "  ", "hi", "undefined", "{}"}
Triggers == {NoTrigger} \cup
            {[present |-> TRUE, body |-> b] : b \in {"absent", "string", "object"}}
Previouses == {"absent", "withBody", "plain"}
KeyTexts == {"", "  ", "sk-config"}
ChatModels == {NoChatModel} \cup
              {[type |-> t, apiKey |-> k] :
                 t \in {"openAiChatModel", "anthropicChatModel"}, k \in {"", "sk-legacy"}}
ToolConfigs ==
  {ToolConfig(t, "") : t \in DOMAIN BuiltinToolName \cup {"customTool", "unknownTool"}}
  \cup {ToolConfig("customTool", "my_tool")}
ToolConfigLists == UNION {[1..n -> ToolConfigs] : n \in 0..MaxConfigs}

\* inputs that differ in the fields the user input is taken from
UserInputVariants ==
  {[DefaultInput EXCEPT !.query = q, !.prompt = p, !.message = m, !.input = i,
                        !.trigger = t, !.previous = v] :
     q \in FieldTexts, p \in {"", "  ", "hi", "{}"}, m \in {"", "hi"},
     i \in {"", "hi"}, t \in Triggers, v \in Previouses}
\* inputs that differ in where an API key could come from
KeyVariants ==
  {[DefaultInput EXCEPT !.configKey = k, !.chatModel = c, !.envOpenai = eo,
                        !.envAnthropic = ea, !.provider = p, !.model = mo] :
     k \in KeyTexts, c \in ChatModels, eo \in {"", "sk-env"}, ea \in {"", "sk-env"},
     p \in {"openai", "anthropic"}, mo \in {"gpt-4o-mini", "claude-3-5-sonnet"}}
\* inputs that differ in the connected tools
ToolVariants ==
  {[DefaultInput EXCEPT !.chatModel = c, !.toolConfigs = l] :
     c \in {NoChatModel, [type |-> "openAiChatModel", apiKey |-> ""]},
     l \in ToolConfigLists}
SetupInputs == UserInputVariants \cup KeyVariants \cup ToolVariants


\* the tools connected to the node in the runs of the loop
ConnectedTools ==
  <<ToolConfig("httpRequestTool", ""), ToolConfig("postgresTool", ""),
    ToolConfig("slackTool", "")>>

\* the inputs the runs of the loop start from, with those tools or with none,
\* and every input of KeyVariants that holds no API key
LoopInputs ==
  {[DefaultInput EXCEPT !.maxIterations = <<m>>, !.provider = p, !.configKey = k,
                        !.toolConfigs = l] :
     m \in 1..MaxIter, p \in {"openai", "anthropic"}, k \in {"", "sk-config"},
     l \in {<<>>, ConnectedTools}}
  \cup {input \in KeyVariants : ApiKeyOf(input) = ""}

NextAgent ==
  \/ \E input \in LoopInputs : AgentStart(input)
  \/ \E t \in TextResponses : LlmText(t)
  \/ \E c \in ToolCallResponses : LlmToolCalls(c)
  \/ \E e \in ErrorMessages : LlmThrows(e)
  \/ \E o \in ToolOutcomes : ToolSettles(o)

\* the reasoning loop
SpecAgent == Init /\ [][NextAgent]_vars

NextSetup == \E input \in SetupInputs : AgentStart(input)

\* the set-up of a run, up to its first call of the decision model
SpecSetup == Init /\ [][NextSetup]_vars

Next ==
  \/ \E w \in Requests, path \in RawPaths, t \in AwaitTimeouts : AwaitCall(w, path, t)
  \/ \E w \in Requests, route \in Routes, raw \in RawPaths :
       HandleWebhook(w, route, raw, PlainHeaders)
  \/ \E w \in Requests : AwaitTimeout(w)
  \/ \E path \in RawPaths : SetWebhookResponse(path)
  \/ Advance

\* Protocol A: response rendezvous
Spec == Init /\ [][Next]_vars

\* the timers of the runtime fire and time passes
Fairness ==
  /\ \A w \in Requests : WF_vars(AwaitTimeout(w))
  /\ WF_vars(Advance)

\* Protocol A under the runtime's timer guarantees
LiveSpec == Init /\ [][Next]_vars /\ Fairness

\* ================================================================ claims
Started(w) == req[w].st # "idle"
Returned(w) == req[w].st = "returned"
Pending(w) == req[w].st = "pending"

\* C1: a call of waitForWebhookResponse(k) that finds the response r which
\* setWebhookResponse(k, r) left while nobody was waiting for k returns r in
\* the call itself: it registers no resolver, arms no timer, and leaves no
\* response under k in webhookResponseStore.
C1_DeliverThenAwait ==
  [][\A w \in Requests :
       (req[w].st = "idle" /\ req'[w].st # "idle"
        /\ undelivered[req'[w].path] # NoResponse)
       => /\ req'[w].st = "returned"
          /\ req'[w].result = undelivered[req'[w].path]
          /\ req'[w].timer = "none"
          /\ responseResolvers' = responseResolvers
          /\ webhookResponseStore'[req'[w].path] = NoResponse]_vars

C1_Witness ==
  \E w \in Requests :
    /\ Returned(w) /\ req[w].pre # 0 /\ req[w].result.id = req[w].pre
    /\ req[w].timer = "none"

\* C2, as claimed: a call that was waiting for k when setWebhookResponse(k, r)
\* ran before the call's deadline returns r. Stated for the calls whose
\* registration no later call replaced.
C2_AwaitThenDeliver ==
  \A w \in Requests :
    (Returned(w) /\ ~req[w].overwritten /\ req[w].during # {})
    => req[w].result.id = Min(req[w].during)

\* C3, as claimed: one response is returned by at most one call of
\* waitForWebhookResponse.
C3_ConsumedOnce ==
  \A v, w \in Requests :
    (v # w /\ Returned(v) /\ Returned(w) /\ req[v].result # NoResponse)
    => req[v].result.id # req[w].result.id

\* C4: a call of waitForWebhookResponse(k, T) that found nothing stored and
\* during which setWebhookResponse(k, ..) never ran returns null, a call
\* returns null only from its own timer callback and not before its deadline,
\* and every waiting call eventually returns.
C4_NullOnlyByOwnTimer ==
  \A w \in Requests :
    /\ (Returned(w) /\ req[w].result = NoResponse)
         => (req[w].timer = "fired" /\ now >= req[w].deadline)
    /\ (Returned(w) /\ req[w].timer # "none" /\ req[w].during = {} /\ ~req[w].late)
         => req[w].result = NoResponse

C4_TimeoutReturnsNull ==
  /\ []C4_NullOnlyByOwnTimer
  /\ \A w \in Requests : Pending(w) ~> Returned(w)

C4_Witness ==
  \E w \in Requests :
    /\ Returned(w) /\ req[w].kind = "call" /\ req[w].result = NoResponse
    /\ req[w].timer = "fired" /\ req[w].during = {} /\ deliverCount = 0

\* C5, as claimed: a webhook request during whose wait the response for its key
\* is set before the 30000 ms deadline answers with that response, and any
\* other request answers with the 200 acknowledgment when its timer fires.
\* Stated for the requests whose registration no later request replaced.
C5_WebhookAnswered ==
  \A w \in Requests :
    (Returned(w) /\ req[w].kind \in Routes /\ ~req[w].overwritten)
    => /\ req[w].http.kind \in {"delivered", "ack"}
       /\ req[w].during # {} => req[w].http.kind = "delivered"
       /\ req[w].http.kind = "ack"
            => (req[w].http.status = DefaultStatus /\ req[w].timer = "fired")

NextPoll ==
  \/ \E w \in 1..NumStores, route \in Routes, raw \in RawPaths :
       HandleWebhook(w, route, raw, PlainHeaders)
  \/ \E w \in Requests : AwaitTimeout(w)
  \/ \E p \in Pollers, raw \in RawPaths, t \in PollTimeouts : PollStart(p, raw, t)
  \/ \E p \in Pollers : PollWake(p)
  \/ \E raw \in RawPaths, a \in AdminActions : ListenPost(raw, a)
  \/ Advance

\* Protocol B: inbound-event polling
SpecPoll == Init /\ [][NextPoll]_vars

PollDone(p) == poll[p].pc = "done"

\* at most one request of webhook-listen returns a given event between resets
AtMostOncePoll ==
  \A p, q \in Pollers :
    (p # q /\ PollDone(p) /\ PollDone(q) /\ poll[p].received /\ poll[q].received)
    => <<poll[p].data, poll[p].epoch>> # <<poll[q].data, poll[q].epoch>>

\* a request returns received:false only once its timeout has elapsed
FalseOnlyAfterTimeout ==
  \A p \in Pollers :
    (PollDone(p) /\ ~poll[p].received) => now - poll[p].startTime >= poll[p].timeout

Finished == agent.pc \in {"returned", "thrown"}
AssistantTurns == {i \in 1..Len(agent.messages) : agent.messages[i].role = "assistant"}
ToolTurns == {i \in 1..Len(agent.messages) : agent.messages[i].role = "tool"}
\* every answer of the decision model so far carried tool calls
OnlyToolCalls == Cardinality(AssistantTurns) = agent.llmCalls
\* the arguments of every tool call so far were well-formed JSON
ArgsParsed == agent.error # "Unexpected token in JSON"

\* C7, as claimed: a run in which every answer of the decision model carried
\* tool calls returns after exactly maxIterations calls of the model, with
\* status max_iterations, iterations = maxIterations and the answer made of the
\* names of the last tool calls. Stated for the runs whose tool-call arguments
\* all parsed.
C7_StopsAtMaxIterations ==
  (Finished /\ agent.llmCalls > 0 /\ OnlyToolCalls /\ ArgsParsed)
  => /\ agent.pc = "returned"
     /\ agent.llmCalls = agent.maxIterations
     /\ agent.result.iterations = agent.maxIterations
     /\ agent.result.status = "max_iterations"
     /\ agent.result.answer = Fallback(agent)

\* C8, as claimed: a run whose last answer of the decision model is a text
\* without tool calls, on iteration i, returns that text with status completed
\* and iterations = i. Stated for the runs that return.
C8_TextCompletes ==
  (agent.pc = "returned" /\ agent.output.kind = "text")
  => /\ agent.result.status = "completed"
     /\ agent.result.answer = agent.output
     /\ agent.result.iterations = agent.llmCalls

\* the assistant turn a tool-role message answers: the nearest one before it
TurnOf(j) == CHOOSE i \in AssistantTurns :
               i < j /\ \A k \in AssistantTurns : k < j => k <= i

\* C9: every tool-role message follows an assistant turn and carries the id of
\* one of the tool calls of the nearest assistant turn before it, and no two
\* tool-role messages that answer the same assistant turn carry the same id.
C9_ToolCallCorrelation ==
  /\ \A j \in ToolTurns :
       /\ \E i \in AssistantTurns : i < j
       /\ \E n \in 1..Len(agent.messages[TurnOf(j)].tool_calls) :
            agent.messages[j].tool_call_id = agent.messages[TurnOf(j)].tool_calls[n]
  /\ \A j, k \in ToolTurns :
       (j # k /\ TurnOf(j) = TurnOf(k))
       => agent.messages[j].tool_call_id # agent.messages[k].tool_call_id

\* two assistant turns, the later one answered by two tool-role messages
C9_Witness ==
  /\ Cardinality(AssistantTurns) >= 2
  /\ \E j, k \in ToolTurns :
       j < k /\ TurnOf(j) = TurnOf(k) /\ \E i \in AssistantTurns : i < TurnOf(j)

\* C10, as claimed: no exception leaves executeReActAgent. Stated for the runs
\* that passed the check of the API key.
C10_NoEscape == agent.pc = "thrown" => agent.thrown = "VALIDATION_ERROR"

\* the tool-role messages that carry an error value
ToolErrorTurns == {j \in ToolTurns : agent.messages[j].content = "error"}
\* the agent_tool_end events published so far
ToolEndEvents == {i \in 1..Len(agent.events) : agent.events[i].type = "agent_tool_end"}

\* C11, as claimed: a failure while handling a tool invocation never ends the
\* run and never gives status error: each failure is recorded as one tool-role
\* message with an error value and one agent_tool_end event, and a run in which
\* the decision model never failed does not return status error.
C11_ToolFailureContained ==
  /\ Cardinality(ToolErrorTurns) = agent.toolFailures
  /\ Cardinality(ToolEndEvents) >= agent.toolFailures
  /\ (agent.pc = "returned" /\ agent.failedAt = 0) => agent.result.status # "error"

\* C12, as claimed: once the call of the decision model has failed on iteration
\* i, the run has returned with status error, iterations = i and the error text
\* as answer, after i calls of the model, and the last event before
\* agent_complete is agent_error for iteration i.
C12_ModelFailureEndsRun ==
  agent.failedAt > 0
  => /\ agent.pc = "returned"
     /\ agent.llmCalls = agent.failedAt
     /\ agent.result.status = "error"
     /\ agent.result.iterations = agent.failedAt
     /\ agent.result.answer = [kind |-> "error", text |-> agent.error, n |-> 0,
                               tools |-> <<>>]
     /\ Len(agent.events) >= 2
     /\ agent.events[Len(agent.events) - 1] = Event("agent_error", agent.failedAt, "")

\* ---------------------------------------------------------------- event hub
\* the set the events route holds for workflow id wf (empty when it has none)
SubscribersOf(wf) == IF wf \in DOMAIN connections THEN connections[wf] ELSE {}
PublishStep(wf) == pubCount' = pubCount + 1 /\ lastPublish'.wf = wf

\* no stream holds an event that was published before its request arrived
NothingBuffered ==
  \A h \in Handles : \A i \in 2..Len(sub[h].received) :
    sub[h].received[i] > sub[h].since

\* C13: publishing to a workflow id that has no entry or an empty set, or
\* before a broadcast function is registered, raises nothing and changes
\* neither the connections map, nor any stream, nor the registration; and no
\* subscriber ever receives an event published before it subscribed.
C13_PublishNoSubscribers ==
  /\ []NothingBuffered
  /\ [][\A wf \in WorkflowIds :
          (PublishStep(wf) /\ (~broadcastFunction \/ SubscribersOf(wf) = {}))
          => /\ connections' = connections
             /\ sub' = sub
             /\ broadcastFunction' = broadcastFunction
             /\ lastPublish'.targets = {}
             /\ ~lastPublish'.raised]_vars

\* a second event was published, to a workflow id whose entry holds an empty
\* set
C13_Witness ==
  /\ lastPublish.event > 1 /\ lastPublish.targets = {}
  /\ lastPublish.wf \in DOMAIN connections /\ connections[lastPublish.wf] = {}
  /\ broadcastFunction

\* C14: when a write fails on one stream during publish, nothing is raised,
\* every other stream of that workflow id gets the event and stays in the set,
\* and the failing handle is removed from the set.
C14_FailedWriteIsolated ==
  [][\A wf \in WorkflowIds :
       (PublishStep(wf) /\ broadcastFunction)
       => /\ ~lastPublish'.raised
          /\ \A h \in SubscribersOf(wf) :
               IF Writable(h)
                 THEN /\ sub'[h].received = Append(sub[h].received, pubCount + 1)
                      /\ h \in connections'[wf]
                 ELSE h \notin connections'[wf]]_vars

\* the last publish failed on one stream and reached another
C14_Witness ==
  /\ lastPublish.failed # {}
  /\ \E h \in lastPublish.targets \ lastPublish.failed :
       sub[h].received[Len(sub[h].received)] = lastPublish.event

\* C15, as claimed: in the step in which a stream is cancelled, its handle
\* leaves the set of its workflow id, its heartbeat interval is stopped, and
\* the entry is removed from the connections map if the set became empty.
C15_CancelDeregisters ==
  [][\A h \in Handles :
       (sub[h].st = "open" /\ sub'[h].st = "cancelled")
       => /\ ~sub'[h].heartbeat
          /\ h \notin (IF sub[h].wf \in DOMAIN connections'
                         THEN connections'[sub[h].wf] ELSE {})
          /\ sub[h].wf \in DOMAIN connections' => connections'[sub[h].wf] # {}]_vars

\* C16, as claimed: every key under which a webhook request stored its event
\* or registered its resolver, and every key a webhook-listen request polls,
\* is free of trailing slashes, so a path and the same path followed by
\* slashes address one entry.
C16_KeysNormalized ==
  /\ \A k \in RawPaths :
       (webhookTestStore[k] # NoEvent \/ responseResolvers[k] # 0)
       => k = StripTrailingSlashes(k)
  /\ \A p \in Pollers : poll[p].path = StripTrailingSlashes(poll[p].path)

\* ------------------------------------------------------------------ set-up
RunStarted == agent.pc # "idle"
PastKeyCheck == RunStarted /\ agent.thrown # "VALIDATION_ERROR"
\* the configuration can be built: a known type, or a custom tool with a name
Buildable(config) ==
  \/ config.type \in DOMAIN BuiltinToolName
  \/ config.type = "customTool" /\ config.name # ""
BuildablePositions(configs) == {i \in 1..Len(configs) : Buildable(configs[i])}

\* C17: createBuiltinTools returns one tool per configuration of a known type
\* (a custom tool only when it has a name), in the order of the
\* configurations, each under the fixed name of its type (a custom tool under
\* its own name), and nothing for any other configuration.
C17_BuildTools ==
  LET configs == AllToolConfigs(agent.input)
      kept == BuildablePositions(configs) IN
  PastKeyCheck
  => /\ Len(agent.tools) = Cardinality(kept)
     /\ \A i \in kept :
          agent.tools[Cardinality({j \in kept : j <= i})] =
            IF configs[i].type = "customTool" THEN configs[i].name
            ELSE BuiltinToolName[configs[i].type]

\* after the chat-model slot, a configuration of unknown type was skipped and
\* the named custom tool configured after it was built
C17_Witness ==
  LET configs == AllToolConfigs(agent.input) IN
  /\ PastKeyCheck /\ Len(configs) = 3
  /\ configs[2].type = "unknownTool"
  /\ configs[3] = ToolConfig("customTool", "my_tool")
  /\ agent.tools = <<"openai_generate", "my_tool">>

NoDirectField(input) ==
  Trim(input.query) = "" /\ input.prompt = "" /\ input.message = "" /\ input.input = ""
\* a field of the input as the user message, or the greeting in its place
FieldOrGreeting(text) ==
  IF text \in {"undefined", "{}"} THEN Greeting ELSE RawText(text)

\* the precedence as the claim words it
ClaimedUserInput(input) ==
  IF Trim(input.query) # "" THEN RawText(input.query)
  ELSE IF input.prompt # "" THEN RawText(input.prompt)
  ELSE IF input.message # "" THEN RawText(input.message)
  ELSE IF input.input # "" THEN RawText(input.input)
  ELSE IF input.trigger.present /\ input.trigger.body # "absent"
    THEN Built("webhook data")
  ELSE IF input.previous = "withBody" THEN Built("upstream body")
  ELSE IF input.previous = "plain" THEN Built("upstream data")
  ELSE Greeting

\* C18, as claimed: the user message is the query field, else prompt, else
\* message, else input, else the trigger's body if present, else the upstream
\* output, else the greeting, and it is never empty.
C18_AsClaimed ==
  PastKeyCheck
  => /\ agent.userInput = ClaimedUserInput(agent.input)
     /\ agent.userInput.text # ""

\* C18, amended: the user message is the first of query (unless blank), prompt,
\* message, input that is a non-empty string; with none of them, a sentence
\* around the trigger's body when the trigger has an object body and around
\* the whole trigger when it has not; with no trigger either, a sentence
\* around the upstream output; else the greeting. A field that reads
\* "undefined" or "{}" gives the greeting. The message is never empty.
C18_UserInputPrecedence ==
  LET i == agent.input
      u == agent.userInput IN
  PastKeyCheck
  => /\ u.text # ""
     /\ agent.messages[2] = Message("user", u.text, 0, <<>>)
     /\ Trim(i.query) # "" => u = FieldOrGreeting(i.query)
     /\ (Trim(i.query) = "" /\ i.prompt # "") => u = FieldOrGreeting(i.prompt)
     /\ (Trim(i.query) = "" /\ i.prompt = "" /\ i.message # "")
          => u = FieldOrGreeting(i.message)
     /\ (Trim(i.query) = "" /\ i.prompt = "" /\ i.message = "" /\ i.input # "")
          => u = FieldOrGreeting(i.input)
     /\ (NoDirectField(i) /\ i.trigger.present)
          => u = IF i.trigger.body = "object" THEN Built("webhook data")
                 ELSE Built("trigger data")
     /\ (NoDirectField(i) /\ ~i.trigger.present /\ i.previous # "absent")
          => u = IF i.previous = "withBody" THEN Built("upstream body")
                 ELSE Built("upstream data")
     /\ (NoDirectField(i) /\ ~i.trigger.present /\ i.previous = "absent")
          => u = Greeting

\* a blank query was passed over for the prompt
C18_Witness ==
  /\ PastKeyCheck /\ agent.input.query = "  " /\ agent.input.prompt = "hi"
  /\ agent.input.trigger.present /\ agent.userInput = RawText("hi")

\* no API key in the node's configuration, the chat-model settings or the
\* environment variable of the provider
NoCredential(input) ==
  /\ Trim(input.configKey) = ""
  /\ input.chatModel.apiKey = ""
  /\ (IF input.provider = "anthropic" THEN input.envAnthropic ELSE input.envOpenai) = ""

\* C19: a run whose input holds no API key throws VALIDATION_ERROR, and has
\* called neither the decision model nor a tool, published no event and built
\* no message.
C19_NoCredential ==
  (RunStarted /\ NoCredential(agent.input))
  => /\ agent.pc = "thrown" /\ agent.thrown = "VALIDATION_ERROR"
     /\ agent.llmCalls = 0 /\ agent.events = <<>> /\ agent.messages = <<>>
     /\ agent.toolCalls = <<>> /\ agent.tools = <<>>

\* a run with a blank key in the configuration and the other provider's key
\* in the environment has thrown
C19_Witness ==
  /\ agent.pc = "thrown" /\ agent.input.configKey = "  "
  /\ agent.input.provider = "openai" /\ agent.input.envAnthropic # ""
  /\ agent.input.chatModel # NoChatModel

\* ------------------------------------------------------ response rendezvous
\* C20, as claimed: a step of setWebhookResponse(k, r) that finds a resolver
\* waiting for k hands r to that resolver and leaves no response stored under
\* k; and a response is stored under a key only if nobody waited for the key
\* when it was set.
C20_DeliverDoesNotPersist ==
  [][\A k \in RawPaths :
       (deliverCount' = deliverCount + 1 /\ responseResolvers[k] # 0
        /\ responseResolvers'[k] = 0)
       => /\ req'[responseResolvers[k]].st = "returned"
          /\ req'[responseResolvers[k]].result.id = deliverCount'
          /\ webhookResponseStore'[k] = NoResponse]_vars

\* C21, as claimed: the timer callback of one call never removes the resolver
\* another call registered and whose own deadline has not come.
C21_TimeoutAffectsOnlyItsAwait ==
  [][\A w \in Requests :
       (req[w].timer = "armed" /\ req'[w].timer = "fired")
       => \A k \in RawPaths :
            (responseResolvers[k] \notin {0, w}
             /\ now < req[responseResolvers[k]].deadline)
            => responseResolvers'[k] = responseResolvers[k]]_vars

\* C22: every resolver in the map belongs to a call that is still waiting
\* under that key with its timer armed; a call that has returned, by delivery
\* or by its timer, owns no resolver in the map.
C22_ResolverNeverOutlives ==
  /\ \A k \in RawPaths :
       responseResolvers[k] # 0
       => /\ Pending(responseResolvers[k])
          /\ req[responseResolvers[k]].timer = "armed"
          /\ req[responseResolvers[k]].path = k
  /\ \A w \in Requests :
       Returned(w) => \A k \in RawPaths : responseResolvers[k] # w

\* one call returned by delivery, another by its timer, and the map is empty
C22_Witness ==
  /\ \E v, w \in Requests :
       /\ Returned(v) /\ req[v].timer = "cleared"
       /\ Returned(w) /\ req[w].timer = "fired"
  /\ \A k \in RawPaths : responseResolvers[k] = 0

\* ------------------------------------------------------------------ cleanup
\* time passes up to the next timer or run of the cleanup interval
AdvanceToSweep ==
  /\ \A d \in Deadlines : d > now
  /\ now' = Min(Deadlines)
  /\ now' <= SweepHorizon
  /\ UNCHANGED <<hubVars, agent, toolRun, webhookTestStore, webhookResponseStore,
                 responseResolvers, req, poll, sweepAt, deliverCount, adminCount,
                 undelivered>>

\* setWebhookResponse is called within the first MaxTime ms
SetResponseEarly(path) ==
  /\ now <= MaxTime
  /\ SetWebhookResponse(path)

NextSweep ==
  \/ \E w \in 1..NumStores, route \in Routes, raw \in RawPaths :
       HandleWebhook(w, route, raw, PlainHeaders)
  \/ \E w \in Requests : AwaitTimeout(w)
  \/ \E path \in RawPaths : SetResponseEarly(path)
  \/ \E p \in 1..NumStores, raw \in RawPaths, t \in PollTimeouts : PollStart(p, raw, t)
  \/ \E p \in Pollers : PollWake(p)
  \/ Sweep
  \/ AdvanceToSweep

\* the stores under the cleanup interval, over several retention windows;
\* responses are set within the first MaxTime ms
SpecSweep == Init /\ [][NextSweep]_vars

\* timers and the cleanup interval fire, and time passes
SweepFairness ==
  /\ \A w \in Requests : WF_vars(AwaitTimeout(w))
  /\ \A p \in Pollers : WF_vars(PollWake(p))
  /\ WF_vars(Sweep)
  /\ WF_vars(AdvanceToSweep)

LiveSweep == Init /\ [][NextSweep]_vars /\ SweepFairness

\* C23, as claimed: every inbound event and every response that is in its
\* store within the first MaxTime ms is eventually removed (the clock runs
\* past the retention window and the next run of the cleanup).
C23_SweepRemovesOld ==
  \A k \in RawPaths :
    /\ (webhookTestStore[k] # NoEvent /\ now <= MaxTime)
         ~> (webhookTestStore[k] = NoEvent)
    /\ (webhookResponseStore[k] # NoResponse /\ now <= MaxTime)
         ~> (webhookResponseStore[k] = NoResponse)

\* ------------------------------------------------------ response rendezvous
\* C24, as claimed: a response that was set for key k while nobody waited and
\* that no call has taken yet stays the stored response of k when another
\* response is set for k, so the next call for k returns the first one.
C24_FirstResponseAuthoritative ==
  [][\A k \in RawPaths :
       (deliverCount' = deliverCount + 1
        /\ undelivered[k] # NoResponse /\ webhookResponseStore[k] = undelivered[k])
       => webhookResponseStore'[k] = webhookResponseStore[k]]_vars

\* every operation of the bridge: calls, webhook requests and their timers over
\* all of Requests, GET requests over all of Pollers, on the keys of both protocols
NextBridge ==
  \/ \E w \in Requests, path \in RawPaths, t \in AwaitTimeouts : AwaitCall(w, path, t)
  \/ \E w \in Requests, route \in Routes, raw \in RawPaths :
       HandleWebhook(w, route, raw, PlainHeaders)
  \/ \E w \in Requests : AwaitTimeout(w)
  \/ \E path \in RawPaths : SetWebhookResponse(path)
  \/ \E p \in Pollers, raw \in RawPaths, t \in PollTimeouts : PollStart(p, raw, t)
  \/ \E p \in Pollers : PollWake(p)
  \/ \E raw \in RawPaths, a \in AdminActions : ListenPost(raw, a)
  \/ Advance

\* both protocols side by side
SpecBridge == Init /\ [][NextBridge]_vars

\* the keys whose inbound event, stored response or resolver a step changes
ChangedKeys ==
  {k \in RawPaths : \/ webhookTestStore'[k] # webhookTestStore[k]
                    \/ webhookResponseStore'[k] # webhookResponseStore[k]
                    \/ responseResolvers'[k] # responseResolvers[k]}
StoresUnchanged(k) ==
  /\ webhookTestStore'[k] = webhookTestStore[k]
  /\ webhookResponseStore'[k] = webhookResponseStore[k]
  /\ responseResolvers'[k] = responseResolvers[k]

\* C25: a step of a call or webhook request changes entries of its own key
\* only, and so does a step of a webhook-listen request; a step changes
\* entries of at most one key; the GET and POST requests of webhook-listen
\* change neither a stored response nor a resolver; and a direct call of
\* waitForWebhookResponse, a timer callback and setWebhookResponse leave the
\* inbound events as they are.
C25_KeyIsolation ==
  [][/\ Cardinality(ChangedKeys) <= 1
     /\ \A w \in Requests :
          req'[w] # req[w] /\ req[w].st = "idle"
          => \A k \in RawPaths \ {req'[w].path} : StoresUnchanged(k)
     /\ \A w \in Requests :
          req[w].timer = "armed" /\ req'[w].timer = "fired"
          => /\ \A k \in RawPaths \ {req[w].path} : StoresUnchanged(k)
             /\ webhookTestStore' = webhookTestStore
     /\ \A p \in Pollers :
          poll'[p] # poll[p]
          => /\ \A k \in RawPaths \ {poll'[p].path} : StoresUnchanged(k)
             /\ webhookResponseStore' = webhookResponseStore
             /\ responseResolvers' = responseResolvers
     /\ adminCount' # adminCount
          => /\ webhookResponseStore' = webhookResponseStore
             /\ responseResolvers' = responseResolvers
     /\ deliverCount' # deliverCount => webhookTestStore' = webhookTestStore
     /\ \A w \in Requests :
          req[w].st = "idle" /\ req'[w].kind = "call"
          => webhookTestStore' = webhookTestStore]_vars

\* two webhook requests stored their events under two different keys and
\* registered a resolver each; a webhook-listen request consumed the event of
\* the first key while a second one found nothing new; the timer of the first
\* request fired, a response was then set for the first key and a POST has
\* acted, and the second request still waits with its resolver and its
\* unconsumed event in place
C25_Witness ==
  \E k1, k2 \in RawPaths, w1, w2 \in Requests, p, q \in Pollers :
    /\ k1 # k2 /\ w1 # w2 /\ p # q
    /\ req[w1].kind # "call" /\ req[w1].path = k1 /\ req[w1].timer = "fired"
    /\ req[w2].kind # "call" /\ req[w2].path = k2 /\ Pending(w2)
    /\ req[w2].timer = "armed" /\ responseResolvers[k2] = w2
    /\ responseResolvers[k1] = 0
    /\ webhookTestStore[k1].id = w1 /\ webhookTestStore[k1].consumed
    /\ webhookTestStore[k2].id = w2 /\ ~webhookTestStore[k2].consumed
    /\ PollDone(p) /\ poll[p].received /\ poll[p].path = k1 /\ poll[p].data = w1
    /\ PollDone(q) /\ ~poll[q].received
    /\ webhookResponseStore[k1] # NoResponse /\ webhookResponseStore[k2] = NoResponse
    /\ adminCount > 0

\* ------------------------------------------------------- reset and clear
\* the POST requests of webhook-listen that resolve to key k, by action
PostStep(k, action) ==
  \E raw \in RawPaths : ListenKey(raw) = k /\ ListenPost(raw, action)
\* a GET request of webhook-listen arrives as request p
PollArrives(p) == poll[p].pc = "idle" /\ poll'[p].pc # "idle"
\* request p returns the event e, unchanged, in this step
Receives(p, e) ==
  /\ poll'[p].pc = "done" /\ poll'[p].received
  /\ poll'[p].data = e.id /\ poll'[p].epoch = e.epoch
\* what reset and clear do to the store, and what an unknown action does
PostEffects ==
  \A k \in RawPaths :
    /\ PostStep(k, "reset") /\ webhookTestStore[k] # NoEvent
         => /\ webhookTestStore'[k].id = webhookTestStore[k].id
            /\ webhookTestStore'[k].timestamp = webhookTestStore[k].timestamp
            /\ ~webhookTestStore'[k].consumed
            /\ \A j \in RawPaths \ {k} : webhookTestStore'[j] = webhookTestStore[j]
    /\ PostStep(k, "reset") /\ webhookTestStore[k] = NoEvent
         => webhookTestStore' = webhookTestStore
    /\ PostStep(k, "clear")
         => webhookTestStore' = [webhookTestStore EXCEPT ![k] = NoEvent]
    /\ PostStep(k, "other") => webhookTestStore' = webhookTestStore
\* a key without an event gets one only from a webhook request that stores it,
\* and no request receives anything from a key without an event
ClearedUntilStore ==
  /\ \A k \in RawPaths :
       webhookTestStore[k] = NoEvent /\ webhookTestStore'[k] # NoEvent
         => \E w \in Requests : /\ req[w].st = "idle" /\ req'[w].kind \in Routes
                                /\ req'[w].path = k /\ webhookTestStore'[k].id = w
  /\ \A p \in Pollers :
       poll'[p] # poll[p] /\ webhookTestStore[poll'[p].path] = NoEvent
         => ~poll'[p].received

NextHeaders ==
  \E w \in 1..NumStores, route \in Routes, raw \in RawPaths, sent \in SUBSET HeaderNames :
    HandleWebhook(w, route, raw, sent)

SpecHeaders == Init /\ [][NextHeaders]_vars

\* no stored event holds a cookie or authorization header, in any letter case
NoSensitiveStored ==
  \A k \in RawPaths :
    \A name \in webhookTestStore[k].headers : ToLowerCase(name) \notin sensitiveHeaders

\* C27, as claimed: no stored event holds a cookie or authorization header, in
\* any letter case, and every other header the request carried is stored.
C27_HeadersStripped ==
  /\ NoSensitiveStored
  /\ \A k \in RawPaths :
       \A name \in webhookTestStore[k].sent :
         ToLowerCase(name) \notin sensitiveHeaders
           => ToLowerCase(name) \in webhookTestStore[k].headers


\* ------------------------------------------------------------ fan-out
\* the streams that are subscribed to workflow id wf: open, requested for wf
OpenStreams(wf) == {h \in Handles : sub[h].st = "open" /\ sub[h].wf = wf}
\* what a stream holds after its "connected" message was published after its
\* request arrived, and no event is held twice
OnlyLaterEvents ==
  \A h \in Handles : \A i \in 2..Len(sub[h].received) :
    /\ sub[h].received[i] > sub[h].since
    /\ \A j \in 2..Len(sub[h].received) : i < j => sub[h].received[i] < sub[h].received[j]

\* C28: a publish for workflow id wf, once the events route is loaded, appends
\* the event once to every open stream requested for wf and changes no other
\* stream; nothing is kept for later: a stream never holds an event published
\* before its request arrived.
C28_FanOut ==
  /\ []OnlyLaterEvents
  /\ [][\A wf \in WorkflowIds :
          (PublishStep(wf) /\ broadcastFunction)
          => /\ \A h \in OpenStreams(wf) :
                  /\ sub'[h].received = Append(sub[h].received, pubCount + 1)
                  /\ h \in lastPublish'.targets
             /\ \A h \in Handles \ OpenStreams(wf) :
                  sub'[h].received = sub[h].received]_vars

\* the last event reached an open stream of its workflow id and not the open
\* stream of another workflow id that had subscribed before it
C28_Witness ==
  \E h, g \in Handles :
    /\ sub[h].st = "open" /\ sub[g].st = "open"
    /\ sub[h].wf = lastPublish.wf /\ sub[g].wf # lastPublish.wf
    /\ sub[h].received[Len(sub[h].received)] = lastPublish.event
    /\ lastPublish.event > 0
    /\ sub[g].since < lastPublish.event /\ sub[g].received = <<0>>


\* C29, as claimed: no workflow id of the connections map holds an empty set.
C29_NoEmptyEntry ==
  \A wf \in DOMAIN connections : connections[wf] # {}

\* C30, as claimed: the tools built for a run have pairwise different names.
C30_ToolNamesUnique ==
  PastKeyCheck
  => \A i, j \in 1..Len(agent.tools) : i # j => agent.tools[i] # agent.tools[j]


\* ---------------------------------------------------------- database tool
\* A query is "<verb> * from <t1> join <t2> ...": its words, in lower case.
\* settings.allowedTables is the list its split(",") gives, <<>> when the
\* setting is unset or empty.
LowerSql(word) ==
  CASE word = "SELECT" -> "select"
    [] word = "Users" -> "users"
    [] OTHER -> word
\* t.trim().toLowerCase() of an entry of the list
TrimLower(entry) == IF entry = " Users " THEN "users" ELSE LowerSql(entry)
\* query.toLowerCase(), as the set of its words
QueryLower(query) ==
  {LowerSql(query.verb), "*", "from"}
    \cup {LowerSql(query.tables[i]) : i \in 1..Len(query.tables)}
    \cup (IF Len(query.tables) > 1 THEN {"join"} ELSE {})
\* String.prototype.includes: the empty string is part of every string, and a
\* table name is part of the text when it is part of one of its words
PartOfWord(t, word) == t = word \/ (t = "users" /\ word = "users_archive")
Includes(words, t) == t = "" \/ \E word \in words : PartOfWord(t, word)

\* execute of database_query
DatabaseQuery(readOnly, allowedTables, query) ==
  LET tables == [i \in 1..Len(allowedTables) |-> TrimLower(allowedTables[i])]
      hasDisallowedTable ==
        ~\E i \in 1..Len(tables) : Includes(QueryLower(query), tables[i]) IN
  IF readOnly /\ LowerSql(query.verb) # "select" THEN "readOnlyError"
  ELSE IF allowedTables # <<>> /\ hasDisallowedTable THEN "tablesError"
  ELSE "executed"

Verbs == {"SELECT", "delete"}
TableNames == {"users", "Users", "secrets", "users_archive"}
Queries == {[verb |-> v, tables |-> t] :
              v \in Verbs, t \in [1..1 -> TableNames] \cup [1..2 -> TableNames]}
AllowedTableLists ==
  {<<>>, <<"users">>, <<" Users ">>, <<"users", "secrets">>, <<"users", "">>}

\* the decision model's call of database_query is executed
RunDatabaseQuery(readOnly, allowedTables, query) ==
  /\ toolRun = NoToolRun
  /\ toolRun' = [tool |-> "database_query", readOnly |-> readOnly,
                 allowedTables |-> allowedTables, query |-> query,
                 outcome |-> DatabaseQuery(readOnly, allowedTables, query)]
  /\ UNCHANGED <<bridgeVars, hubVars, agent>>

NextTools ==
  \E readOnly \in BOOLEAN, allowedTables \in AllowedTableLists, query \in Queries :
    RunDatabaseQuery(readOnly, allowedTables, query)

\* single calls of a tool's execute
SpecTools == Init /\ [][NextTools]_vars

\* the tables a list allows, and the tables a query references
AllowedSet(allowedTables) ==
  {TrimLower(allowedTables[i]) : i \in 1..Len(allowedTables)}
Referenced(query) == {LowerSql(query.tables[i]) : i \in 1..Len(query.tables)}

\* C32, as claimed: with allowedTables configured, a query is executed only if
\* every table it references is in the list; a query that references a table
\* outside the list settles with an error.
C32_OnlyAllowedTables ==
  (toolRun.tool = "database_query" /\ toolRun.allowedTables # <<>>
     /\ toolRun.outcome = "executed")
  => Referenced(toolRun.query) \subseteq AllowedSet(toolRun.allowedTables)


\* ------------------------------------------------------------ stalled tools
\* the tools whose execute passes an AbortSignal.timeout to its fetch
TimedTools == {"http_request"}
\* the decision model calls a tool whose fetch carries no signal
UntimedResponses == {<<Call(1, "slack_message", TRUE)>>}

\* the timeout signal of the running tool call aborts its fetch: execute throws
ToolTimeout ==
  /\ agent.pc = "tool"
  /\ Head(agent.calls).name \in TimedTools
  /\ ToolSettles("throw")

\* the tools whose execute awaits no server (database_query returns a fixed
\* object or throws); a call of a name without an executor throws at once
LocalTools == {"database_query"}
LocalToolSettles ==
  /\ agent.pc = "tool"
  /\ \/ Head(agent.calls).name \in LocalTools
     \/ ~HasExecutor(agent, Head(agent.calls).name)
  /\ \E o \in ToolOutcomes : ToolSettles(o)

\* the call of the decision model settles, one way or another
LlmSettles ==
  \/ \E t \in TextResponses : LlmText(t)
  \/ \E c \in ToolCallResponses \cup UntimedResponses : LlmToolCalls(c)
  \/ \E e \in ErrorMessages : LlmThrows(e)

NextLiveAgent ==
  \/ \E input \in LoopInputs : AgentStart(input)
  \/ \E t \in TextResponses : LlmText(t)
  \/ \E c \in ToolCallResponses \cup UntimedResponses : LlmToolCalls(c)
  \/ \E e \in ErrorMessages : LlmThrows(e)
  \/ \E o \in ToolOutcomes : ToolSettles(o)
  \/ ToolTimeout

\* the reasoning loop with tools that may never answer: the decision model's
\* call settles, a tool that awaits no server settles and an armed timeout
\* signal fires; whether a tool's server answers is up to the server
LiveAgent ==
  /\ Init /\ [][NextLiveAgent]_vars
  /\ WF_vars(LlmSettles) /\ WF_vars(LocalToolSettles) /\ WF_vars(ToolTimeout)

\* C31, as claimed: every run that starts ends (returns or throws), whatever
\* the tools do.
C31_StalledToolCannotHang ==
  (agent.pc # "idle") ~> (agent.pc \in {"returned", "thrown"})


\* ------------------------------------------------------ order of tool calls
\* the tool-role messages that directly follow the assistant turn at i
AnswersTo(i) ==
  {j \in ToolTurns : i < j /\ \A k \in (i + 1)..j : agent.messages[k].role = "tool"}
EventsOfType(type) == {i \in 1..Len(agent.events) : agent.events[i].type = type}
LastAssistantTurn == CHOOSE i \in AssistantTurns : \A k \in AssistantTurns : k <= i

\* C33: the tool-role messages that follow an assistant turn answer its tool
\* calls in the emitted order, first call first, without gaps; while a call is
\* being executed it is the next one in that order, every earlier call of the
\* response has its message, and exactly one agent_tool_start is unanswered;
\* otherwise every agent_tool_start has its agent_tool_end.
C33_ToolCallsInOrder ==
  /\ \A i \in AssistantTurns :
       /\ Cardinality(AnswersTo(i)) <= Len(agent.messages[i].tool_calls)
       /\ \A j \in AnswersTo(i) :
            agent.messages[j].tool_call_id = agent.messages[i].tool_calls[j - i]
  /\ agent.pc = "tool"
       => /\ AssistantTurns # {}
          /\ LET i == LastAssistantTurn
                 done == Cardinality(AnswersTo(i)) IN
             /\ done < Len(agent.messages[i].tool_calls)
             /\ i + done = Len(agent.messages)
             /\ Head(agent.calls).id = agent.messages[i].tool_calls[done + 1]
          /\ Cardinality(EventsOfType("agent_tool_start"))
               = Cardinality(EventsOfType("agent_tool_end")) + 1
  /\ agent.pc # "tool"
       => Cardinality(EventsOfType("agent_tool_start"))
            = Cardinality(EventsOfType("agent_tool_end"))

\* a response with two tool calls was answered by two tool-role messages, in
\* the emitted order
C33_Witness ==
  \E i \in AssistantTurns :
    /\ Len(agent.messages[i].tool_calls) = 2
    /\ Cardinality(AnswersTo(i)) = 2
    /\ agent.messages[i + 1].tool_call_id = agent.messages[i].tool_calls[1]
    /\ agent.messages[i + 2].tool_call_id = agent.messages[i].tool_calls[2]
    /\ agent.messages[i].tool_calls[1] # agent.messages[i].tool_calls[2]


\* ------------------------------------------------------ the iteration bound
\* the range the configuration panel announces: min={1} max={20}
RangeMin == 1
RangeMax == 20
\* what the user may type into the Max Iterations field
TypedValues == {"", "0", "-3", "1", "21"}
\* parseInt(e.target.value) || 10: the value the panel stores
OnChangeMaxIterations(text) ==
  CASE text = "" -> 10
    [] text = "0" -> 10
    [] text = "-3" -> 0 - 3
    [] text = "1" -> 1
    [] text = "21" -> 21
\* the runs of a node whose maxIterations is absent or was typed into the panel
BoundInputs ==
  {[DefaultInput EXCEPT !.maxIterations = <<>>, !.toolConfigs = ConnectedTools]}
    \cup {[DefaultInput EXCEPT !.maxIterations = <<OnChangeMaxIterations(t)>>,
                               !.toolConfigs = ConnectedTools] :
            t \in TypedValues}

NextBound ==
  \/ \E input \in BoundInputs : AgentStart(input)
  \/ LlmText("final answer")
  \/ LlmToolCalls(<<Call(1, "http_request", TRUE)>>)
  \/ ToolSettles("object")

\* the reasoning loop under the bounds a caller can configure
SpecBound == Init /\ [][NextBound]_vars

\* C34, as claimed: iterations and the number of calls of the decision model
\* grow together, by one per pass, and in every state of a run
\* 0 <= iterations <= maxIterations and the calls made so far equal iterations.
C34_IterationsCount ==
  /\ [](PastKeyCheck => /\ 0 <= agent.iterations
                        /\ agent.iterations <= agent.maxIterations
                        /\ agent.llmCalls = agent.iterations)
  /\ [][/\ agent'.iterations \in {agent.iterations, agent.iterations + 1}
        /\ agent'.llmCalls - agent.llmCalls = agent'.iterations - agent.iterations]_vars

\* C35, as claimed: a run makes at least 1 and at most 20 iterations whatever
\* maxIterations the caller supplied, and its bound is 10 when none is given.
C35_BoundInRange ==
  /\ PastKeyCheck => agent.iterations <= RangeMax
  /\ agent.pc = "returned" => agent.result.iterations >= RangeMin
  /\ (PastKeyCheck /\ agent.input.maxIterations = <<>>)
       => agent.maxIterations = DefaultMaxIterations


\* ---------------------------------------------------------- order of events
\* agent_start comes first and once; the n-th agent_thinking is that of
\* iteration n; every agent_tool_start is followed at once by the
\* agent_tool_end of its tool and comes after the agent_thinking of its
\* iteration or after another pair's end; every agent_tool_end closes a start
EventsWellNested ==
  /\ agent.events[1].type = "agent_start"
  /\ EventsOfType("agent_start") = {1}
  /\ \A i \in EventsOfType("agent_thinking") :
       agent.events[i].iteration
         = Cardinality({j \in EventsOfType("agent_thinking") : j <= i})
  /\ \A i \in EventsOfType("agent_tool_start") :
       /\ i < Len(agent.events)
       /\ agent.events[i + 1] = [agent.events[i] EXCEPT !.type = "agent_tool_end"]
       /\ agent.events[i - 1].type \in {"agent_thinking", "agent_tool_end"}
       /\ agent.events[i - 1].iteration = agent.events[i].iteration
  /\ \A i \in EventsOfType("agent_tool_end") :
       i > 1 /\ agent.events[i - 1].type = "agent_tool_start"

\* C36, as claimed: the events of a run that started and has ended are
\* agent_start, then per iteration one agent_thinking followed by pairs of
\* agent_tool_start and agent_tool_end, and one agent_complete as the last
\* event (agent_error events are not counted).
C36_EventOrder ==
  (Finished /\ PastKeyCheck)
  => /\ EventsWellNested
     /\ Cardinality(EventsOfType("agent_complete")) = 1
     /\ agent.events[Len(agent.events)].type = "agent_complete"


\* ------------------------------------------------------------- the observer
\* what useWorkflowEvents keeps for the agent's node: its execution state
\* (none before the first event) and the step of its agent execution state
NoView == [node |-> "none", step |-> "idle"]
\* handleEvent: one event applied to the view (a node_output event carries
\* output: is its output field truthy)
HandleEvent(view, event) ==
  CASE event.type = "agent_start" -> [node |-> "running", step |-> "thinking"]
    [] event.type = "agent_thinking" -> [view EXCEPT !.step = "thinking"]
    [] event.type = "agent_tool_start" -> [view EXCEPT !.step = "tool_calling"]
    [] event.type = "agent_tool_end" -> [view EXCEPT !.step = "thinking"]
    [] event.type = "agent_complete" -> [node |-> "completed", step |-> "complete"]
    [] event.type = "agent_error" -> [node |-> "error", step |-> "error"]
    [] event.type = "node_output" ->
         IF event.output THEN [view EXCEPT !.node = "completed"] ELSE view
    [] OTHER -> view
\* the events applied in the order they were published
RECURSIVE Observe(_)
Observe(events) ==
  IF events = <<>> THEN NoView
  ELSE HandleEvent(Observe(SubSeq(events, 1, Len(events) - 1)), events[Len(events)])

\* C37, as claimed: when a run has returned with status error, an observer
\* that applied its events in order shows the node in execution state error
\* and the agent step error.
C37_ObserverShowsError ==
  (agent.pc = "returned" /\ agent.result.status = "error")
  => Observe(agent.events) = [node |-> "error", step |-> "error"]


\* C38, as claimed: when the run has returned, state.step is "complete",
\* whether it ended with an answer, at the iteration cap or by a failure of
\* the decision model.
C38_StepComplete ==
  agent.pc = "returned" => agent.step = "complete"

====
